---- MODULE Spec2Model ----
(***************************************************************************)
(* window-sort-iterator: WindowSort, an iterator adapter that keeps a      *)
(* BinaryHeap of up to window_size items of the underlying iterator and    *)
(* yields the heap's maximum on every next() (src/src/lib.rs).             *)
(*                                                                         *)
(* The underlying iterator `orig` is a slice iterator: a finite sequence   *)
(* `input` and a cursor; once it has returned None it keeps returning None.*)
(* Every item carries, next to its value, the position it had in the       *)
(* input (idx); the order on items (Ord) compares the values only.         *)
(* WindowSort::next is modelled step by step: Call enters it, FillPush /   *)
(* FillBreak / FillDone are the iterations and the two exits of the while  *)
(* loop, Pop is the final heap.pop() and the return.                       *)
(*                                                                         *)
(* Spec         the slice iterator above                                   *)
(* SpecReverse  the same with every item wrapped in std::cmp::Reverse      *)
(* SpecResume   an underlying iterator that may return None and go on      *)
(* SpecHint     Spec with a call of WindowSort::size_hint                  *)
(***************************************************************************)
EXTENDS Integers, Sequences, FiniteSets

\* Bounds of the model.
MaxLen == 4        \* longest input sequence
MaxVal == 4        \* items are the values 1..MaxVal
MaxWindow == 4     \* window_size ranges over 0..MaxWindow
MaxNone == 2       \* next() is called until it has returned None MaxNone times
UsizeMax == 7      \* usize::MAX, for a usize of few bits

VARIABLES
    input,        \* the items the underlying iterator yields, in order
    cursor,       \* orig: how many entries of input it has gone through
    exhausted,    \* orig: whether it has returned None
    window_size,  \* WindowSort.window_size
    heap,         \* WindowSort.heap: the set of buffered items
    pc,           \* position inside next(): "idle" (not in a call), "fill", "pop"
    polls,        \* calls of orig.next() made by the current call of next()
    startLen,     \* heap.len() when the current call of next() began
    peak,         \* the greatest heap.len() there has been
    hint,         \* what a call of size_hint() returned, NoHint before it
    results       \* what the calls of next() returned so far, in order

vars == <<input, cursor, exhausted, window_size, heap, pc, polls, startLen,
          peak, hint, results>>

Values == 1..MaxVal

\* Option::None as returned by next(); Some(item) is the item itself.
None == [val |-> 0, idx |-> 0]

\* An entry of input at which the underlying iterator returns None although
\* entries follow (an iterator that is not fused); the inputs of Spec hold
\* none.
Gap == 0

\* The item at position i of the input (1-based).
Item(i) == [val |-> input[i], idx |-> i]

Inputs == UNION {[1..n -> Values] : n \in 0..MaxLen}

\* BinaryHeap::len
HeapLen == Cardinality(heap)

\* No call of size_hint() has been made.
NoHint == [lower |-> 0 - 1]

\* The fields of a freshly built WindowSort.
window_sort(xs, size) ==
    /\ input = xs
    /\ cursor = 0
    /\ exhausted = FALSE
    /\ window_size = size
    /\ heap = {}

\* What the properties remember of a run, before the first call.
Fresh ==
    /\ pc = "idle"
    /\ polls = 0
    /\ startLen = 0
    /\ peak = 0
    /\ hint = NoHint
    /\ results = <<>>

Init ==
    /\ \E xs \in Inputs, size \in 0..MaxWindow : window_sort(xs, size)
    /\ Fresh

\* How many of the calls so far returned None.
NoneCount == Cardinality({a \in 1..Len(results) : results[a] = None})

\* The least items of the heap.
HeapMin == {e \in heap : \A f \in heap : e.val <= f.val}

\* The greatest items of the heap: what BinaryHeap::pop may remove (items of
\* equal value are not ordered among each other).
HeapMax == {e \in heap : \A f \in heap : f.val <= e.val}

\* The loop condition of next(): the heap needs filling.
NeedsFillLe == HeapLen <= window_size
NeedsFillEarly == HeapLen + 1 < window_size
NeedsFillUnlessExhausted == HeapLen < window_size /\ ~exhausted
NeedsFill == HeapLen < window_size

\* A call of next() begins.
Call ==
    /\ pc = "idle"
    /\ NoneCount < MaxNone
    /\ pc' = "fill"
    /\ polls' = 0
    /\ startLen' = HeapLen
    /\ UNCHANGED <<input, cursor, exhausted, window_size, heap, peak, hint,
                   results>>

\* One iteration of the loop: orig.next() is Some(item), pushed onto the heap.
FillPush ==
    /\ pc = "fill"
    /\ NeedsFill
    /\ cursor < Len(input)
    /\ input[cursor + 1] # Gap
    /\ cursor' = cursor + 1
    /\ heap' = heap \cup {Item(cursor + 1)}
    /\ polls' = polls + 1
    /\ peak' = IF HeapLen + 1 > peak THEN HeapLen + 1 ELSE peak
    /\ UNCHANGED <<input, exhausted, window_size, pc, startLen, hint, results>>

\* A wrong else branch: `return None` in place of `break`.
FillBreakReturn ==
    /\ pc = "fill"
    /\ NeedsFill
    /\ cursor >= Len(input)
    /\ exhausted' = TRUE
    /\ polls' = polls + 1
    /\ pc' = "idle"
    /\ results' = Append(results, None)
    /\ UNCHANGED <<input, cursor, window_size, heap, startLen, peak, hint>>

\* One iteration of the loop: orig.next() is None, the loop is left by break.
\* The underlying iterator is at its end.
FillBreak ==
    /\ pc = "fill"
    /\ NeedsFill
    /\ cursor >= Len(input)
    /\ exhausted' = TRUE
    /\ polls' = polls + 1
    /\ pc' = "pop"
    /\ UNCHANGED <<input, cursor, window_size, heap, startLen, peak, hint,
                   results>>

\* The loop condition is false: the heap holds window_size items.
FillDone ==
    /\ pc = "fill"
    /\ ~NeedsFill
    /\ pc' = "pop"
    /\ UNCHANGED <<input, cursor, exhausted, window_size, heap, polls, startLen,
                   peak, hint, results>>

\* heap.pop() and the return: removes and returns a greatest item of the heap,
\* None when the heap is empty.
Pop ==
    /\ pc = "pop"
    /\ IF heap = {}
         THEN /\ results' = Append(results, None)
              /\ heap' = heap
         ELSE \E e \in HeapMax :
                /\ results' = Append(results, e)
                /\ heap' = heap \ {e}
    /\ pc' = "idle"
    /\ UNCHANGED <<input, cursor, exhausted, window_size, polls, startLen, peak,
                   hint>>

Next == Call \/ FillPush \/ FillBreak \/ FillDone \/ Pop

Spec == Init /\ [][Next]_vars

(***************************************************************************)
(* The items wrapped in std::cmp::Reverse, as in the crate's second        *)
(* example: window_sort(a.iter().cloned().map(|i| Reverse(i)), 2).map(|i|  *)
(* i.0).  Reverse(a) <= Reverse(b) exactly when b <= a; the wrapped item   *)
(* is modelled by the negated value, which orders that way.                *)
(***************************************************************************)

\* .map(|i| Reverse(i)) on one value
Reverse(v) == 0 - v

\* .map(|i| i.0) on one yielded item
Unwrap(r) == 0 - r.val

ReversedInputs == {[a \in 1..Len(xs) |-> Reverse(xs[a])] : xs \in Inputs}

InitReverse ==
    /\ \E xs \in ReversedInputs, size \in 0..MaxWindow : window_sort(xs, size)
    /\ Fresh

SpecReverse == InitReverse /\ [][Next]_vars

(***************************************************************************)
(* An underlying iterator that is not fused: next() may return None and    *)
(* return items again afterwards.  Its input holds Gap where it returns    *)
(* None early; past the end of the input it returns None for good.         *)
(***************************************************************************)

ResumingInputs == UNION {[1..n -> Values \cup {Gap}] : n \in 0..MaxLen}

InitResume ==
    /\ \E xs \in ResumingInputs, size \in 0..MaxWindow : window_sort(xs, size)
    /\ Fresh

\* One iteration of the loop: orig.next() is None, the loop is left by break.
\* The underlying iterator has more to yield later.
FillGap ==
    /\ pc = "fill"
    /\ NeedsFill
    /\ cursor < Len(input)
    /\ input[cursor + 1] = Gap
    /\ cursor' = cursor + 1
    /\ exhausted' = TRUE
    /\ polls' = polls + 1
    /\ pc' = "pop"
    /\ UNCHANGED <<input, window_size, heap, startLen, peak, hint, results>>

NextResume == Call \/ FillPush \/ FillGap \/ FillBreak \/ FillDone \/ Pop

SpecResume == InitResume /\ [][NextResume]_vars

(***************************************************************************)
(* WindowSort::size_hint.  The underlying iterator's own size_hint() is    *)
(* any pair (lower, upper) of a usize and an Option<usize>; what it will   *)
(* really still yield is known to the model.  next() and size_hint() do    *)
(* not look at the items' values, so the inputs here hold one value.       *)
(* A run records one call of size_hint(), made between two calls of        *)
(* next().                                                                 *)
(***************************************************************************)

\* Option<usize>::None as the upper bound.
Unknown == 0 - 1

Usize == 0..UsizeMax

\* A wrong addition: usize::wrapping_add.
wrapping_add(a, b) == (a + b) % (UsizeMax + 1)

\* usize::saturating_add
saturating_add(a, b) == IF a + b > UsizeMax THEN UsizeMax ELSE a + b

\* WindowSort::size_hint, given what self.orig.size_hint() returns.
size_hint(lower, upper) ==
    LET heap_items == HeapLen
    IN  IF upper # Unknown
          THEN [lower |-> saturating_add(lower, heap_items),
                upper |-> saturating_add(upper, heap_items)]
          ELSE [lower |-> saturating_add(lower, heap_items),
                upper |-> Unknown]

HintInputs == UNION {[1..n -> {1}] : n \in 0..MaxLen}

InitHint ==
    /\ \E xs \in HintInputs, size \in 0..MaxWindow : window_sort(xs, size)
    /\ Fresh

\* A call of size_hint() between two calls of next().  Next to the pair it
\* returns, hint keeps what the call saw: the pair of the underlying iterator,
\* heap.len(), the items the underlying iterator has left and the items
\* next() had yielded.
SizeHint ==
    /\ pc = "idle"
    /\ hint = NoHint
    /\ \E lower \in Usize, upper \in Usize \cup {Unknown} :
          LET h == size_hint(lower, upper)
          IN  hint' = [lower |-> h.lower,
                       upper |-> h.upper,
                       orig_lower |-> lower,
                       orig_upper |-> upper,
                       heap_items |-> HeapLen,
                       orig_left |-> Len(input) - cursor,
                       yielded |-> Len(results) - NoneCount]
    /\ UNCHANGED <<input, cursor, exhausted, window_size, heap, pc, polls,
                   startLen, peak, results>>

NextHint == Next \/ SizeHint

SpecHint == InitHint /\ [][NextHint]_vars

(***************************************************************************)
(* Vocabulary of the properties.                                           *)
(***************************************************************************)

IsSome(r) == r # None

\* The items next() has yielded so far: the results that are not None.
Yielded == SelectSeq(results, IsSome)

\* The values of a sequence of items.
ValsOf(s) == [a \in 1..Len(s) |-> s[a].val]

\* How often value v occurs among the first m entries of a sequence of values.
Count(s, m, v) == Cardinality({a \in 1..m : s[a] = v})

Min2(a, b) == IF a <= b THEN a ELSE b

\* No call of next() is running and the last one returned None: the caller
\* has drained the iterator.
Drained ==
    /\ pc = "idle"
    /\ results # <<>>
    /\ results[Len(results)] = None

\* A sequence of values in max-first order.
Descending(s) == \A a, b \in 1..Len(s) : a < b => s[a] >= s[b]

\* Two sequences of values hold the same values equally often.
SameMultiset(s, t) ==
    /\ Len(s) = Len(t)
    /\ \A v \in Values : Count(s, Len(s), v) = Count(t, Len(t), v)

(***************************************************************************)
(* C1  Permutation.                                                        *)
(***************************************************************************)

\* C1: once the iterator is drained, the yielded items are the input items,
\* each as often as the input holds it, and as many as the input holds.
C1_Permutation ==
    Drained => SameMultiset(ValsOf(Yielded), input)

\* The same for window_size >= 1 only; holds, see C6 for window_size = 0.
C1_PermutationPositiveWindow ==
    (Drained /\ window_size >= 1) => SameMultiset(ValsOf(Yielded), input)

(***************************************************************************)
(* C2  Bounded buffering.                                                  *)
(***************************************************************************)

\* C2: in every state, also inside a call of next(), the heap holds at most
\* window_size items, and the items polled from the underlying iterator
\* exceed the items yielded by at most window_size.
C2_BoundedBuffer ==
    /\ HeapLen <= window_size
    /\ cursor - Len(Yielded) <= window_size

\* A full window in the middle of a run over a longer input.
C2_Witness ==
    /\ window_size >= 2
    /\ HeapLen = window_size
    /\ Len(Yielded) >= 1
    /\ cursor < Len(input)

(***************************************************************************)
(* C3  Max-of-window emission.                                             *)
(***************************************************************************)

\* The greatest value that the first m entries of the sequence of values s
\* hold more often than the first p entries of the sequence of values t do
\* (0 when there is none).
MaxRemaining(s, m, t, p) ==
    LET left == {v \in Values : Count(s, m, v) > Count(t, p, v)}
    IN  IF left = {} THEN 0 ELSE CHOOSE v \in left : \A w \in left : w <= v

\* C3: for window_size k >= 1 and an input of n items, the call number p
\* (from 0, p < n) returns the greatest of the first min(n, p + k) input items
\* less the p items returned before; and the item a call returns is at least
\* every item it leaves in the heap.  Stated of the states between calls:
\* results changes only when a call returns.
C3_MaxOfWindow ==
    (window_size >= 1 /\ pc = "idle") =>
        LET returned == ValsOf(results)
        IN  /\ \A a \in 1..Min2(Len(results), Len(input)) :
                  /\ results[a] # None
                  /\ returned[a] =
                        MaxRemaining(input, Min2(Len(input), (a - 1) + window_size),
                                     returned, a - 1)
            /\ (results # <<>> /\ results[Len(results)] # None) =>
                  \A e \in heap : e.val <= results[Len(results)].val

\* tests::should_sort_window_only: [4, 2, 1, 3] with window 2 gives 4, 2, 3, 1,
\* seen after the third call, with 1 left in the heap.
C3_Witness ==
    /\ window_size = 2
    /\ input = <<4, 2, 1, 3>>
    /\ pc = "idle"
    /\ ValsOf(results) = <<4, 2, 3>>
    /\ heap = {Item(3)}

(***************************************************************************)
(* C4  Window-local ordering.                                              *)
(***************************************************************************)

\* Whether the input item of position i has been yielded.
Emitted(i) == \E a \in 1..Len(results) : results[a].idx = i

\* For every input position, the number of the call that yielded its item
\* (from 1), 0 when it has not been yielded.
OutPos ==
    [i \in 1..Len(input) |->
        IF Emitted(i) THEN CHOOSE a \in 1..Len(results) : results[a].idx = i
                      ELSE 0]

\* C4 as claimed: of two yielded items of different value whose input
\* positions i < j are less than window_size apart, the greater is yielded
\* first.
C4_WindowLocalOrder ==
    pc = "idle" =>
        LET pos == OutPos
        IN  \A i, j \in 1..Len(input) :
                (i < j /\ j - i < window_size /\ pos[i] > 0 /\ pos[j] > 0) =>
                    /\ input[i] > input[j] => pos[i] < pos[j]
                    /\ input[j] > input[i] => pos[j] < pos[i]

\* C4 as amended: of two items whose input positions i < j are less than
\* window_size apart, a greater earlier item is yielded first; a greater later
\* item is yielded first when it had been polled by the call that yielded the
\* earlier one, which is call number a (from 1) with j <= (a - 1) + window_size.
\* Stated of the states between calls: results changes only when a call
\* returns.
C4_WindowLocalOrderPolled ==
    pc = "idle" =>
        LET pos == OutPos
        IN  \A i, j \in 1..Len(input) :
                (i < j /\ j - i < window_size) =>
                    /\ (input[i] > input[j] /\ pos[j] > 0) =>
                          (pos[i] > 0 /\ pos[i] < pos[j])
                    /\ (input[j] > input[i] /\ pos[i] > 0
                            /\ j <= (pos[i] - 1) + window_size) =>
                          (pos[j] > 0 /\ pos[j] < pos[i])

\* tests::should_sort_i32_fn: [3, 4, 2, 1] with window 2 gives 4, 3, 2, 1; the
\* later 4 overtakes the 3, the earlier 2 stays ahead of the 1.
C4_Witness ==
    /\ window_size = 2
    /\ input = <<3, 4, 2, 1>>
    /\ Drained
    /\ ValsOf(Yielded) = <<4, 3, 2, 1>>

(***************************************************************************)
(* C5  Full containment.                                                   *)
(***************************************************************************)

\* C5: an input no longer than window_size is yielded fully sorted, max first.
C5_FullContainment ==
    (Drained /\ Len(input) <= window_size) =>
        /\ Descending(ValsOf(Yielded))
        /\ SameMultiset(ValsOf(Yielded), input)

\* tests::small_underlying_iterator: [2, 3, 4, 1] in a window that holds it all.
C5_Witness ==
    /\ window_size >= 4
    /\ input = <<2, 3, 4, 1>>
    /\ Drained
    /\ ValsOf(Yielded) = <<4, 3, 2, 1>>

(***************************************************************************)
(* C6  Zero window.                                                        *)
(***************************************************************************)

\* C6: with window_size = 0 the drained iterator has yielded the input items
\* in their original order.
C6_ZeroPassThrough ==
    (Drained /\ window_size = 0) => ValsOf(Yielded) = input

(***************************************************************************)
(* C7  Unit window.                                                        *)
(***************************************************************************)

\* C7: with window_size = 1 the items are yielded in their original order: the
\* a-th yielded item is the a-th input item, and the drained iterator has
\* yielded all of them.
C7_UnitPassThrough ==
    window_size = 1 =>
        /\ \A a \in 1..Len(Yielded) : Yielded[a] = Item(a)
        /\ Drained => ValsOf(Yielded) = input

\* An unsorted input drained through a window of one.
C7_Witness ==
    /\ window_size = 1
    /\ Drained
    /\ Len(input) >= 3
    /\ ~Descending(input)
    /\ ValsOf(Yielded) = input

(***************************************************************************)
(* C8  Exhaustion stability.                                               *)
(***************************************************************************)

\* C8: after a call that returned None every later call returns None, and the
\* heap is empty from then on.
C8_ExhaustionStable ==
    /\ \A a, b \in 1..Len(results) :
          (a < b /\ results[a] = None) => results[b] = None
    /\ NoneCount >= 1 => heap = {}

\* A second None after items had been yielded through a real window.
C8_Witness ==
    /\ NoneCount >= 2
    /\ Len(Yielded) >= 2
    /\ window_size >= 2
    /\ pc = "idle"

(***************************************************************************)
(* C9  Fill invariant.                                                     *)
(***************************************************************************)

\* C9 as claimed: between calls of next(), before the first one too, the heap
\* holds fewer than window_size items only if the underlying iterator has
\* returned None.
C9_FillInvariant ==
    pc = "idle" => (HeapLen < window_size => exhausted)

\* C9 as amended: when the fill loop of next() is left, before the pop, the
\* heap holds fewer than window_size items only if the underlying iterator
\* has returned None; after a call has returned, the heap holds fewer than
\* window_size - 1 items only if it has.
C9_FillInvariantAfterFill ==
    /\ pc = "pop" => (HeapLen < window_size => exhausted)
    /\ (pc = "idle" /\ results # <<>>) =>
          (HeapLen + 1 < window_size => exhausted)

\* Both cases: a call returned leaving window_size - 1 items with input left
\* to poll, and the next call filled the window again.
C9_Witness ==
    /\ pc = "pop"
    /\ results # <<>>
    /\ window_size >= 2
    /\ HeapLen = window_size
    /\ ~exhausted

(***************************************************************************)
(* C10  The None result and the Exhausted state.                           *)
(***************************************************************************)

\* C10: a call of next() returns None exactly when, after its fill loop, the
\* underlying iterator has returned None and the heap is empty; it does not
\* return None while the underlying iterator has items left.
C10_NoneIffExhausted ==
    [][(pc = "pop" /\ results' # results) =>
          LET r == results'[Len(results')]
          IN  /\ (r = None) <=> (exhausted /\ heap = {})
              /\ (r = None) => cursor >= Len(input)]_vars

\* The same for window_size >= 1 only; holds, see C6 for window_size = 0.
C10_NoneIffExhaustedPositiveWindow ==
    [][(pc = "pop" /\ results' # results /\ window_size >= 1) =>
          LET r == results'[Len(results')]
          IN  /\ (r = None) <=> (exhausted /\ heap = {})
              /\ (r = None) => cursor >= Len(input)]_vars

(***************************************************************************)
(* C11  Termination.                                                       *)
(***************************************************************************)

\* C11: over an input of n items the calls of next() return n items and then
\* None: call a (from 1) returns None exactly when a > n.
C11_NoneAfterAllItems ==
    \A a \in 1..Len(results) : (results[a] = None) <=> (a > Len(input))

\* The same for window_size >= 1 only; holds, see C6 for window_size = 0.
C11_NoneAfterAllItemsPositiveWindow ==
    window_size >= 1 =>
        \A a \in 1..Len(results) : (results[a] = None) <=> (a > Len(input))

(***************************************************************************)
(* C12  size_hint is a valid bound (SpecHint).                             *)
(***************************************************************************)

\* The pair the underlying iterator gave was correct: it bounds the items it
\* had left.
OrigHintCorrect ==
    /\ hint.orig_lower <= hint.orig_left
    /\ hint.orig_upper # Unknown => hint.orig_left <= hint.orig_upper

\* The items next() has yielded since size_hint() was called.
YieldedSinceHint == Len(Yielded) - hint.yielded

\* C12: when the underlying iterator's pair was correct, the lower bound
\* size_hint() returned is at most the number of items next() yields after
\* it, and the upper bound, when there is one, at least that number.  Stated
\* of the drained iterator, which yields no more.
C12_HintIsBound ==
    (Drained /\ hint # NoHint /\ OrigHintCorrect) =>
        /\ hint.lower <= YieldedSinceHint
        /\ hint.upper # Unknown => YieldedSinceHint <= hint.upper

\* The same for window_size >= 1 only; holds, see C6 for window_size = 0.
C12_HintIsBoundPositiveWindow ==
    (Drained /\ hint # NoHint /\ OrigHintCorrect /\ window_size >= 1) =>
        /\ hint.lower <= YieldedSinceHint
        /\ hint.upper # Unknown => YieldedSinceHint <= hint.upper

(***************************************************************************)
(* C13  The formula of size_hint (SpecHint).                               *)
(***************************************************************************)

\* C13 as claimed: the lower bound is the underlying iterator's lower bound
\* plus heap.len(), the upper bound its upper bound plus heap.len() when it
\* has one and None otherwise, also when the sum is above usize::MAX.
C13_HintIsSum ==
    hint # NoHint =>
        /\ hint.lower = hint.orig_lower + hint.heap_items
        /\ hint.orig_upper = Unknown => hint.upper = Unknown
        /\ hint.orig_upper # Unknown =>
              hint.upper = hint.orig_upper + hint.heap_items

\* C13 as amended: each bound is that sum when the sum is at most usize::MAX,
\* and usize::MAX when the sum is above it.
C13_HintIsSaturatedSum ==
    hint # NoHint =>
        /\ hint.lower = Min2(hint.orig_lower + hint.heap_items, UsizeMax)
        /\ hint.orig_upper = Unknown => hint.upper = Unknown
        /\ hint.orig_upper # Unknown =>
              hint.upper = Min2(hint.orig_upper + hint.heap_items, UsizeMax)

\* Both bounds saturated: the sums are above usize::MAX.
C13_Witness ==
    /\ hint # NoHint
    /\ hint.heap_items >= 1
    /\ hint.orig_upper # Unknown
    /\ hint.orig_lower < UsizeMax
    /\ hint.orig_lower + hint.heap_items > UsizeMax
    /\ hint.orig_upper + hint.heap_items > UsizeMax
    /\ hint.lower = UsizeMax
    /\ hint.upper = UsizeMax

(***************************************************************************)
(* C14  Reversed order gives min-first (SpecReverse).                      *)
(***************************************************************************)

\* The unwrapped values of a sequence of items.
UnwrappedOf(s) == [a \in 1..Len(s) |-> Unwrap(s[a])]

\* A sequence of values in min-first order.
Ascending(s) == \A a, b \in 1..Len(s) : a < b => s[a] <= s[b]

\* C14: with every item wrapped in Reverse, the item a call returns is, in the
\* natural order, at most every item it leaves in the heap; an input no longer
\* than window_size comes out fully sorted ascending; and [1, 4, 2, 3] with
\* window 2 comes out as [1, 2, 3, 4].
C14_ReverseMinFirst ==
    pc = "idle" =>
        /\ (results # <<>> /\ results[Len(results)] # None) =>
              \A e \in heap : Unwrap(results[Len(results)]) <= Unwrap(e)
        /\ (Drained /\ Len(input) <= window_size) =>
              /\ Ascending(UnwrappedOf(Yielded))
              /\ SameMultiset(UnwrappedOf(Yielded),
                              [a \in 1..Len(input) |-> 0 - input[a]])
        /\ (Drained /\ window_size = 2
                /\ input = <<Reverse(1), Reverse(4), Reverse(2), Reverse(3)>>) =>
              UnwrappedOf(Yielded) = <<1, 2, 3, 4>>

\* The crate's Reverse example, drained.
C14_Witness ==
    /\ window_size = 2
    /\ input = <<Reverse(1), Reverse(4), Reverse(2), Reverse(3)>>
    /\ Drained
    /\ UnwrappedOf(Yielded) = <<1, 2, 3, 4>>

(***************************************************************************)
(* C15  Window-local order, by input position.                             *)
(***************************************************************************)

\* C15 as claimed: of two items whose input positions i < j are less than
\* window_size apart, the one of position i is yielded no later than the one
\* of position j.
C15_EarlierFirst ==
    pc = "idle" =>
        LET pos == OutPos
        IN  \A i, j \in 1..Len(input) :
                (i < j /\ j - i < window_size /\ pos[j] > 0) =>
                    (pos[i] > 0 /\ pos[i] <= pos[j])

\* C15 as amended: the one of position i is yielded no later than the one of
\* position j when it is the greater of the two.
C15_EarlierFirstIfGreater ==
    pc = "idle" =>
        LET pos == OutPos
        IN  \A i, j \in 1..Len(input) :
                (i < j /\ j - i < window_size /\ pos[j] > 0
                    /\ input[i] > input[j]) =>
                    (pos[i] > 0 /\ pos[i] <= pos[j])

\* [2, 1, 3] with window 2: the 2 is yielded before the 1 that follows it,
\* the 1 after the 3 that follows it.
C15_Witness ==
    /\ window_size = 2
    /\ input = <<2, 1, 3>>
    /\ Drained
    /\ ValsOf(Yielded) = <<2, 3, 1>>

(***************************************************************************)
(* C17  Polling discipline of the fill loop.                               *)
(***************************************************************************)

\* Inside a call of next(): the polls made so far are at most what the heap
\* lacked when the call began, and none when it lacked nothing.
PollsWithinNeed ==
    pc \in {"fill", "pop"} =>
        /\ polls <= window_size - startLen
        /\ startLen >= window_size => polls = 0

\* A poll is made inside the loop only while the heap holds fewer than
\* window_size items; a poll that brought no item ends the loop; after the
\* loop the call polls no more.
PollStep ==
    /\ polls' = polls + 1 => (pc = "fill" /\ HeapLen < window_size)
    /\ (polls' = polls + 1 /\ heap' = heap) => pc' = "pop"
    /\ pc = "pop" => polls' = polls

\* C17: within one call of next() the underlying iterator is polled at most
\* window_size - (heap.len() at the start of the call) times, not again once
\* it has returned None, and not at all when the heap is full.
C17_PollingDiscipline == []PollsWithinNeed /\ [][PollStep]_vars

\* A call that began one item short, polled once, got None and went on to pop.
C17_Witness ==
    /\ pc = "pop"
    /\ window_size >= 2
    /\ startLen = window_size - 1
    /\ HeapLen = startLen
    /\ polls = 1
    /\ exhausted

(***************************************************************************)
(* C18  Out-of-order pairs are at least a window apart.                    *)
(***************************************************************************)

\* Of two yielded items with the greater one yielded later, by call b after
\* call a (from 1): the greater one has an input position (from 1) of at
\* least a + window_size, so it had not been polled when call a returned.
LateGreaterUnpolled ==
    (window_size >= 1 /\ pc = "idle") =>
        \A a, b \in 1..Len(results) :
            (a < b /\ results[a] # None /\ results[b] # None
                /\ results[b].val > results[a].val) =>
                results[b].idx >= a + window_size

\* An item yielded once the underlying iterator has returned None is at most
\* the item yielded before it.
DescendingOnceExhausted ==
    (window_size >= 1 /\ exhausted /\ results' # results /\ results # <<>>
        /\ results[Len(results)] # None /\ results'[Len(results')] # None) =>
        results'[Len(results')].val <= results[Len(results)].val

\* C18: for window_size k >= 1, an item yielded after a smaller one had not
\* been polled when the smaller one was yielded; so the items yielded once the
\* underlying iterator has returned None come in non-increasing order.
C18_OutOfOrderApart == []LateGreaterUnpolled /\ [][DescendingOnceExhausted]_vars

\* tests::should_sort_window_only: the 3 comes after the 2, from input position
\* 4 = 2 + window_size; then the 1 after the 3, the iterator being exhausted.
C18_Witness ==
    /\ window_size = 2
    /\ input = <<4, 2, 1, 3>>
    /\ Drained
    /\ exhausted
    /\ ValsOf(Yielded) = <<4, 2, 3, 1>>

(***************************************************************************)
(* C19  Bounded forward displacement.                                      *)
(***************************************************************************)

\* C19: for window_size k >= 1 the item call a (from 1) yields has an input
\* position (from 1) of at most a + k - 1: no item is yielded more than k - 1
\* places early.
C19_ForwardDisplacement ==
    window_size >= 1 =>
        \A a \in 1..Len(results) :
            results[a] # None => results[a].idx <= a + window_size - 1

\* An ascending input through a window of 2: every item but the first is
\* yielded one place early, the first one last, Len(input) - 1 places late.
C19_Witness ==
    /\ window_size = 2
    /\ Len(input) >= 4
    /\ Drained
    /\ \A a \in 1..(Len(input) - 1) : input[a] < input[a + 1]
    /\ Len(Yielded) = Len(input)
    /\ Yielded[Len(Yielded)].idx = 1
    /\ \A a \in 1..(Len(Yielded) - 1) : Yielded[a].idx = a + 1

(***************************************************************************)
(* C16  An underlying iterator that resumes (SpecResume).                  *)
(***************************************************************************)

\* The underlying iterator has yielded an item after it had returned None.
Resumed ==
    \E g, i \in 1..cursor : g < i /\ input[g] = Gap /\ input[i] # Gap

\* The run is over: the underlying iterator is at its end for good and the
\* heap is empty, so the heap stays empty from here on.
RunOver == pc = "idle" /\ cursor = Len(input) /\ heap = {}

\* C16 as claimed: when the underlying iterator has yielded an item after
\* returning None, the heap holds more than window_size items in some state:
\* in a run that is over, it has done so.
C16_Overfill ==
    (Resumed /\ RunOver) => peak > window_size

\* C16 as amended: also with an underlying iterator that yields items after
\* returning None, the heap holds at most window_size items in every state.
C16_NeverOverfull ==
    /\ HeapLen <= window_size
    /\ peak <= window_size

\* A late item has filled the window to the brim.
C16_Witness ==
    /\ Resumed
    /\ window_size >= 2
    /\ HeapLen = window_size
    /\ cursor >= 1
    /\ heap # {}
    /\ Item(cursor) \in heap

(***************************************************************************)
(* C20  Exhaustion is not remembered (SpecResume).                         *)
(***************************************************************************)

\* C20: every call of next() that begins with fewer than window_size items in
\* the heap polls the underlying iterator, whatever it or next() returned
\* before: inside the loop every step with fewer than window_size items is a
\* poll, and such a call reaches the pop with at least one poll made.
C20_PollsAgain ==
    /\ [](pc = "pop" /\ startLen < window_size => polls >= 1)
    /\ [][(pc = "fill" /\ HeapLen < window_size) => polls' = polls + 1]_vars

\* next() has returned None and, in a later call that polled after the
\* underlying iterator had returned None, an item.
C20_Witness ==
    /\ pc = "idle"
    /\ Resumed
    /\ \E a, b \in 1..Len(results) :
          a < b /\ results[a] = None /\ results[b] # None

====
